---- MODULE Spec2Model ----
(***************************************************************************)
(* Model of AudioPluginAudioProcessorEditor (Source/PluginEditor.h/.cpp):  *)
(* the editor shell that owns a container component, an image provider    *)
(* and a UI loader, and forwards the host's paint / resized callbacks.     *)
(*                                                                         *)
(* The constructor body is executed one statement at a time (CtorProgram), *)
(* a statement together with everything it calls synchronously, so that    *)
(* the order of the construction steps and the callbacks they trigger are  *)
(* observable.  Component geometry follows the GUI toolkit's rules: a      *)
(* component starts with empty bounds, a change of its size calls its      *)
(* resized() synchronously, and setResizeLimits() re-applies the current   *)
(* bounds through the bounds constrainer it installs.                      *)
(***************************************************************************)
EXTENDS Integers, Sequences, FiniteSets, TLC

\* ------------------------------------------------------------------ bounds
MaxResized == 4        \* cap on the number of resized() executions
MaxPaint   == 2        \* cap on the number of paint() executions

\* Content sizes the loaded description may have (0x0: nothing was built).
NaturalSizes == { <<0, 0>>, <<400, 300>>, <<800, 600>>, <<2000, 1500>> }
\* Sizes the host or the corner resizer may ask for.
RequestedSizes == { <<0, 0>>, <<400, 300>>, <<1000, 200>>, <<1600, 1200>>, <<2000, 1500>> }
\* Positions the host may move the editor to.
Positions == { <<0, 0>>, <<10, 20>> }

\* A null uiLoader pointer, and a pointer to a UILoader bound to its
\* container and image provider.
NULL == [obj |-> "nullptr", container |-> "", images |-> "", loaded |-> FALSE]
\* The geometry of the widget tree is the set of its widgets' bounds.
NoWidgets == { }
\* No constrainer installed on the editor.
NoConstrainer == [installed |-> FALSE, minW |-> 0, minH |-> 0, maxW |-> 0, maxH |-> 0]

Rect(x, y, w, h) == [x |-> x, y |-> y, w |-> w, h |-> h]

\* ------------------------------------------------- class layout (header)
\* Data members in declaration order; they are constructed in this order
\* and destroyed in the reverse order after the (empty) destructor body.
MemberDeclSwapped == << "processorRef", "uiLoader", "uiContainer", "imageLoader" >>
MemberDecl == << "processorRef", "uiContainer", "imageLoader", "uiLoader" >>

RECURSIVE Reverse(_)
Reverse(s) == IF s = << >> THEN << >> ELSE Append(Reverse(Tail(s)), Head(s))

DestructionOrder == Reverse(MemberDecl)

\* Objects a member owns (destroyed with it).  The unique_ptr owns the
\* UILoader, which owns the widget tree it built.
Owned(m) ==
    CASE m = "uiLoader"    -> { "UILoader", "widgetTree" }
      [] m = "uiContainer" -> { "uiContainer" }
      [] m = "imageLoader" -> { "imageLoader" }
      [] OTHER             -> { }

\* References an object holds to other objects of the editor.
Refs(o) ==
    CASE o = "UILoader"   -> { "uiContainer", "imageLoader" }
      [] o = "widgetTree" -> { "uiContainer" }
      [] OTHER            -> { }

\* ------------------------------------------------------------- variables
VARIABLES
    phase,        \* "Uninitialized" | "Active" | "Destroying" | "Destroyed"
    pc,           \* next constructor statement / next member to destroy
    natural,      \* content size of the description resource
    ed,           \* the editor object: fields and what its callbacks saw
    resizedAt,    \* {<<phase, cause>>} of every resized() execution
    paintAt,      \* phases in which paint() executed
    activations,  \* number of Uninitialized -> Active transitions
    dtorLog       \* members destroyed so far, in order

vars == << phase, pc, natural, ed, resizedAt, paintAt, activations, dtorLog >>

\* ------------------------------------------------------ toolkit geometry
getLocalBounds(b) == Rect(0, 0, b.w, b.h)

jlimit(lo, hi, v) == IF v < lo THEN lo ELSE IF v > hi THEN hi ELSE v

\* ComponentBoundsConstrainer::checkBounds with the default constrainer:
\* only the size limits apply.
checkBounds(b, c) ==
    [b EXCEPT !.w = jlimit(c.minW, c.maxW, b.w),
              !.h = jlimit(c.minH, c.maxH, b.h)]

\* ------------------------------------------------------------- UI loader
\* Geometry the description's layout rules give the widget tree inside a
\* container of bounds c (positions relative to the container).
Layout(c) == Rect(c.w \div 4, c.h \div 4, c.w \div 2, c.h \div 2)

\* UILoader::loadUI: builds the widget tree under the container and sizes
\* the container to the content's natural size n; with no content (0x0)
\* the container is left empty.
loadUI(s, n) ==
    LET c == [s.container EXCEPT !.w = n[1], !.h = n[2]]
    IN  [s EXCEPT !.uiLoader.loaded = TRUE,
                  !.loadCount       = @ + 1,
                  !.container       = c,
                  !.widgets         = IF n = <<0, 0>> THEN NoWidgets ELSE { Layout(c) },
                  !.alive           = @ \cup { "widgetTree" },
                  !.naturalSeen     = << c.w, c.h >>,
                  !.log             = Append(@, "loadUI")]

\* UILoader::applyLayout: recomputes the widget geometry from the current
\* container bounds.  layoutInput / layoutShell record what the call saw.
applyLayout(s) ==
    [s EXCEPT !.applyCount  = @ + 1,
              !.unloadedLayout = @ \/ ~ s.uiLoader.loaded,
              !.layoutInput = s.container,
              !.layoutShell = getLocalBounds(s.shell),
              !.widgets     = IF s.widgets = NoWidgets THEN NoWidgets
                              ELSE { Layout(s.container) }]

\* ------------------------------------------------------ editor callbacks
\* paint(): fills the surface with the look-and-feel's background colour.
paintRelayout(s) ==
    applyLayout([s EXCEPT !.surface = "background", !.paintCount = @ + 1,
                          !.container = getLocalBounds(s.shell)])
paint(s) == [s EXCEPT !.surface = "background", !.paintCount = @ + 1]

\* resized(): uiContainer.setBounds(getLocalBounds()); uiLoader->applyLayout().
\* Dereferencing a null uiLoader is recorded in nullDeref.
resizedStale(s) ==
    LET s1 == [s EXCEPT !.resizedCount = @ + 1, !.lastResizedShell = s.shell]
        s2 == IF s1.uiLoader = NULL THEN [s1 EXCEPT !.nullDeref = TRUE]
              ELSE applyLayout(s1)
    IN  [s2 EXCEPT !.container = getLocalBounds(s2.shell)]
resizedReduced(s) ==
    LET s1 == [s EXCEPT !.resizedCount = @ + 1, !.lastResizedShell = s.shell]
        l  == getLocalBounds(s1.shell)
        s2 == [s1 EXCEPT !.container = Rect(10, 10, l.w - 20, l.h - 20)]
    IN  IF s2.uiLoader = NULL THEN [s2 EXCEPT !.nullDeref = TRUE]
        ELSE applyLayout(s2)
resizedReload(s) ==
    LET s1 == [s EXCEPT !.resizedCount = @ + 1, !.lastResizedShell = s.shell]
        s2 == [s1 EXCEPT !.container = getLocalBounds(s1.shell)]
    IN  IF s2.uiLoader = NULL THEN [s2 EXCEPT !.nullDeref = TRUE]
        ELSE applyLayout([loadUI(s2, << s2.naturalSeen[1], s2.naturalSeen[2] >>)
                            EXCEPT !.container = s2.container])
resized(s) ==
    LET s1 == [s EXCEPT !.resizedCount = @ + 1, !.lastResizedShell = s.shell]
        s2 == [s1 EXCEPT !.container = getLocalBounds(s1.shell)]
    IN  IF s2.uiLoader = NULL THEN [s2 EXCEPT !.nullDeref = TRUE]
        ELSE applyLayout(s2)

\* Component::setBounds on the editor: a change of size calls resized()
\* synchronously; a change of position alone does not.
setBounds(s, b) ==
    IF b = s.shell THEN s
    ELSE LET s1 == [s EXCEPT !.shell = b]
         IN  IF b.w # s.shell.w \/ b.h # s.shell.h THEN resized(s1) ELSE s1

\* AudioProcessorEditor::setBoundsConstrained.
setBoundsConstrained(s, b) ==
    IF ~ s.constrainer.installed THEN setBounds(s, b)
    ELSE setBounds(s, checkBounds(b, s.constrainer))

\* ------------------------------------------------------------ constructor
\* Arguments of setResizeLimits.
ResizeLimits == [minW |-> 400, minH |-> 300, maxW |-> 1600, maxH |-> 1200]

\* The statements of the constructor body, in program order.
CtorProgramLimitsFirst ==
    << "addAndMakeVisible", "setResizable", "setResizeLimits",
       "makeLoader", "loadUI", "setSize" >>
CtorProgramLoadLate ==
    << "addAndMakeVisible", "makeLoader", "setResizable",
       "setResizeLimits", "setSize", "loadUI" >>
CtorProgramSizeFirst ==
    << "addAndMakeVisible", "makeLoader", "loadUI",
       "setSize", "setResizable", "setResizeLimits" >>
CtorProgram ==
    << "addAndMakeVisible", "makeLoader", "loadUI",
       "setResizable", "setResizeLimits", "setSize" >>

\* Effect of one constructor statement, with everything it calls.
Exec(stmt, s, n) ==
    CASE stmt = "addAndMakeVisible" ->
            \* adds the container as a visible child; the parent's
            \* resized() is not called
            [s EXCEPT !.parented = TRUE, !.log = Append(@, stmt)]
      [] stmt = "makeLoader" ->
            [s EXCEPT !.uiLoader    = [obj       |-> "UILoader",
                                       container |-> "uiContainer",
                                       images    |-> "imageLoader",
                                       loaded    |-> FALSE],
                      !.loaderCount = @ + 1,
                      !.alive       = @ \cup { "UILoader" },
                      !.log         = Append(@, stmt)]
      [] stmt = "loadUI" ->
            IF s.uiLoader = NULL
            THEN [s EXCEPT !.nullDeref = TRUE, !.log = Append(@, stmt)]
            ELSE loadUI(s, n)
      [] stmt = "setResizable" ->
            \* setResizable(true, true): attaches the corner resizer
            [s EXCEPT !.resizableByHost = TRUE, !.hasCorner = TRUE,
                      !.log = Append(@, stmt)]
      [] stmt = "setResizeLimits" ->
            \* installs the default constrainer with the limits and
            \* re-applies the current bounds through it
            LET s1 == [s EXCEPT !.constrainer     =
                                    [installed |-> TRUE,
                                     minW |-> ResizeLimits.minW,
                                     minH |-> ResizeLimits.minH,
                                     maxW |-> ResizeLimits.maxW,
                                     maxH |-> ResizeLimits.maxH],
                                !.resizableByHost =
                                    (ResizeLimits.minW # ResizeLimits.maxW
                                     \/ ResizeLimits.minH # ResizeLimits.maxH),
                                !.log = Append(@, stmt)]
            IN  setBoundsConstrained(s1, s1.shell)
      [] stmt = "setSize" ->
            \* setSize(uiContainer.getWidth(), uiContainer.getHeight())
            LET w  == s.container.w
                h  == s.container.h
                s1 == [s EXCEPT !.setSizeArg = << w, h >>,
                                !.log = Append(@, stmt)]
            IN  setBounds(s1, [s1.shell EXCEPT !.w = w, !.h = h])

\* ------------------------------------------------------------------ Init
Init ==
    /\ phase = "Uninitialized"
    /\ pc = 0
    /\ natural \in NaturalSizes
    /\ ed = [ shell            |-> Rect(0, 0, 0, 0),
              container        |-> Rect(0, 0, 0, 0),
              widgets          |-> NoWidgets,
              uiLoader         |-> NULL,
              constrainer      |-> NoConstrainer,
              resizableByHost  |-> FALSE,
              hasCorner        |-> FALSE,
              parented         |-> FALSE,
              surface          |-> "unpainted",
              alive            |-> { },
              log              |-> << >>,
              loadCount        |-> 0,
              loaderCount      |-> 0,
              applyCount       |-> 0,
              resizedCount     |-> 0,
              paintCount       |-> 0,
              layoutInput      |-> Rect(0, 0, 0, 0),
              layoutShell      |-> Rect(0, 0, 0, 0),
              lastResizedShell |-> Rect(0, 0, 0, 0),
              naturalSeen      |-> << 0, 0 >>,
              setSizeArg       |-> << 0, 0 >>,
              unloadedLayout   |-> FALSE,
              nullDeref        |-> FALSE ]
    /\ resizedAt = { }
    /\ paintAt = { }
    /\ activations = 0
    /\ dtorLog = << >>

\* resized() executions an operation added, tagged with phase and cause.
Ran(old, new, cause) ==
    IF new.resizedCount > old.resizedCount THEN { << phase, cause >> } ELSE { }

\* --------------------------------------------------------------- actions
\* Member initialisers: the members that hold objects are built in
\* declaration order; uiLoader starts as a null pointer.
InitMembers ==
    /\ phase = "Uninitialized" /\ pc = 0
    /\ LET built == SelectSeq(MemberDecl,
                              LAMBDA m : m \in { "uiContainer", "imageLoader" })
       IN  ed' = [ed EXCEPT !.alive = { built[i] : i \in 1..Len(built) },
                            !.log   = built]
    /\ pc' = 1
    /\ UNCHANGED << phase, natural, resizedAt, paintAt, activations, dtorLog >>

\* One statement of the constructor body.
CtorStep ==
    /\ phase = "Uninitialized" /\ pc \in 1..Len(CtorProgram)
    /\ ed' = Exec(CtorProgram[pc], ed, natural)
    /\ resizedAt' = resizedAt \cup Ran(ed, ed', CtorProgram[pc])
    /\ pc' = pc + 1
    /\ UNCHANGED << phase, natural, paintAt, activations, dtorLog >>

\* The constructor returns: the editor is Active.
CtorReturn ==
    /\ phase = "Uninitialized" /\ pc = Len(CtorProgram) + 1
    /\ phase' = "Active"
    /\ activations' = activations + 1
    /\ UNCHANGED << pc, natural, ed, resizedAt, paintAt, dtorLog >>

\* The host or the corner resizer asks for a new size; the request goes
\* through the constrainer installed by setResizeLimits.
HostResize(w, h) ==
    /\ phase = "Active"
    /\ ed.resizedCount < MaxResized
    /\ ed' = setBoundsConstrained(ed, [ed.shell EXCEPT !.w = w, !.h = h])
    /\ resizedAt' = resizedAt \cup Ran(ed, ed', "hostResize")
    /\ UNCHANGED << phase, pc, natural, paintAt, activations, dtorLog >>

\* The host moves the editor inside its window.
HostMove(x, y) ==
    /\ phase = "Active"
    /\ << x, y >> # << ed.shell.x, ed.shell.y >>
    /\ ed' = setBounds(ed, [ed.shell EXCEPT !.x = x, !.y = y])
    /\ UNCHANGED << phase, pc, natural, resizedAt, paintAt, activations, dtorLog >>

\* The resized() callback is invoked again with the bounds unchanged.
CallResized ==
    /\ phase = "Active"
    /\ ed.resizedCount < MaxResized
    /\ ed' = resized(ed)
    /\ resizedAt' = resizedAt \cup Ran(ed, ed', "callback")
    /\ UNCHANGED << phase, pc, natural, paintAt, activations, dtorLog >>

\* The paint() callback.
Paint ==
    /\ phase = "Active"
    /\ ed.paintCount < MaxPaint
    /\ ed' = paint(ed)
    /\ paintAt' = paintAt \cup { phase }
    /\ UNCHANGED << phase, pc, natural, resizedAt, activations, dtorLog >>

\* ~AudioPluginAudioProcessorEditor(): the body is empty.
BeginDestroy ==
    /\ phase = "Active"
    /\ phase' = "Destroying"
    /\ pc' = 1
    /\ UNCHANGED << natural, ed, resizedAt, paintAt, activations, dtorLog >>

\* Members are destroyed in reverse declaration order.
DestroyMember ==
    /\ phase = "Destroying" /\ pc \in 1..Len(DestructionOrder)
    /\ LET m == DestructionOrder[pc]
       IN  /\ ed' = [ed EXCEPT !.alive    = @ \ Owned(m),
                               !.uiLoader = IF m = "uiLoader" THEN NULL ELSE @,
                               !.widgets  = IF m = "uiLoader" THEN NoWidgets ELSE @]
           /\ dtorLog' = Append(dtorLog, m)
    /\ pc' = pc + 1
    /\ UNCHANGED << phase, natural, resizedAt, paintAt, activations >>

\* The base class is destroyed last.
FinishDestroy ==
    /\ phase = "Destroying" /\ pc = Len(DestructionOrder) + 1
    /\ phase' = "Destroyed"
    /\ UNCHANGED << pc, natural, ed, resizedAt, paintAt, activations, dtorLog >>

Next ==
    \/ InitMembers
    \/ CtorStep
    \/ CtorReturn
    \/ \E sz \in RequestedSizes : HostResize(sz[1], sz[2])
    \/ \E p \in Positions : HostMove(p[1], p[2])
    \/ CallResized
    \/ Paint
    \/ BeginDestroy
    \/ DestroyMember
    \/ FinishDestroy

Spec == Init /\ [][Next]_vars

TypeOK ==
    /\ phase \in { "Uninitialized", "Active", "Destroying", "Destroyed" }
    /\ ed.resizedCount \in 0..MaxResized
    /\ ed.paintCount \in 0..MaxPaint

\* ---------------------------------------------------------------- claims
CtorDone == phase = "Uninitialized" /\ pc = Len(CtorProgram) + 1

\* C1: every applyLayout() call sees the container already set to the
\* shell's current local bounds, and once resized() has run the container
\* is never stale with respect to the shell.
C1_LayoutAfterBounds ==
    /\ ed.applyCount > 0 => ed.layoutInput = ed.layoutShell
    /\ ed.resizedCount > 0 => ed.container = getLocalBounds(ed.shell)

C1_Witness ==
    /\ phase = "Active"
    /\ ed.applyCount >= 2
    /\ ed.shell.w = 1000
    /\ ed.layoutInput = Rect(0, 0, 1000, 300)

\* C2 (as stated): when the constructor body has finished with content
\* loaded, the size passed to setSize and the shell's size are the size
\* the container had right after loadUI.
C2_InitialSizeIsNatural ==
    (CtorDone /\ ed.widgets # NoWidgets)
             => /\ ed.setSizeArg = ed.naturalSeen
                /\ << ed.shell.w, ed.shell.h >> = ed.naturalSeen

\* C3 (as stated): paint and resized execute only while the shell is Active.
C3_OnlyWhileActive ==
    /\ paintAt \subseteq { "Active" }
    /\ \A e \in resizedAt : e[1] = "Active"

\* C3 (amended): paint executes only while Active; resized executes only
\* while Active or, exactly once, inside the constructor as the synchronous
\* effect of setResizeLimits; neither executes once destruction has begun.
C3_ActiveOrSetResizeLimits ==
    /\ paintAt \subseteq { "Active" }
    /\ \A e \in resizedAt :
          e[1] = "Active" \/ e = << "Uninitialized", "setResizeLimits" >>
    /\ phase = "Uninitialized" => ed.resizedCount <= 1
    /\ CtorDone => ed.resizedCount = 1

C3_Witness ==
    /\ << "Uninitialized", "setResizeLimits" >> \in resizedAt
    /\ << "Active", "callback" >> \in resizedAt
    /\ << "Active", "hostResize" >> \in resizedAt
    /\ "Active" \in paintAt
    /\ phase = "Destroyed"

\* C4: during destruction the loader and its widget tree are released
\* before the image provider and the container, and no live object ever
\* references a destroyed one.
Before(a, b, log) ==
    \A i, j \in 1..Len(log) : (log[i] = a /\ log[j] = b) => i < j

InLog(a, log) == \E i \in 1..Len(log) : log[i] = a

C4_LoaderReleasedFirst ==
    /\ \A o \in ed.alive : Refs(o) \subseteq ed.alive
    /\ Before("uiLoader", "uiContainer", dtorLog)
    /\ Before("uiLoader", "imageLoader", dtorLog)
    /\ (InLog("uiContainer", dtorLog) \/ InLog("imageLoader", dtorLog))
          => InLog("uiLoader", dtorLog)

C4_Witness ==
    /\ phase = "Destroying"
    /\ dtorLog = << "uiLoader" >>
    /\ ed.alive = { "uiContainer", "imageLoader" }

\* C5: the construction steps happen in the order image provider, loader,
\* loadUI, resizing configuration, initial size, each at most once; the
\* shell becomes Active exactly once, after all of them, and never
\* returns to Uninitialized.
CtorOrder ==
    << "imageLoader", "makeLoader", "loadUI",
       "setResizable", "setResizeLimits", "setSize" >>

C5_ConstructionOrder ==
    LET steps == SelectSeq(ed.log,
                           LAMBDA e : \E k \in 1..Len(CtorOrder) : CtorOrder[k] = e)
    IN  /\ Len(steps) <= Len(CtorOrder)
        /\ steps = SubSeq(CtorOrder, 1, Len(steps))
        /\ phase # "Uninitialized" => steps = CtorOrder
        /\ activations <= 1
        /\ phase = "Uninitialized" <=> activations = 0
        /\ ed.uiLoader # NULL =>
              /\ ed.uiLoader.container = "uiContainer"
              /\ ed.uiLoader.images = "imageLoader"

C5_Witness ==
    /\ phase = "Active"
    /\ activations = 1
    /\ ed.resizedCount >= 2
    /\ ed.setSizeArg # << 0, 0 >>

\* C6: loadUI is invoked exactly once, in the constructor, and the loader
\* is created exactly once, whatever callbacks follow.
C6_LoadedOnce ==
    /\ ed.loadCount <= 1
    /\ ed.loaderCount <= 1
    /\ phase # "Uninitialized" => ed.loadCount = 1 /\ ed.loaderCount = 1
    /\ phase = "Active" => ed.uiLoader # NULL /\ ed.uiLoader.loaded

C6_Witness ==
    /\ phase = "Active"
    /\ ed.resizedCount >= 3
    /\ ed.paintCount >= 1
    /\ ed.loadCount = 1

C9_PaintFrame ==
    [][ ed'.paintCount # ed.paintCount
        => /\ ed' = [ed EXCEPT !.surface = "background",
                               !.paintCount = ed.paintCount + 1]
           /\ UNCHANGED << phase, pc, natural, resizedAt, activations, dtorLog >> ]_vars

C9_Witness ==
    /\ phase = "Active"
    /\ ed.paintCount >= 1
    /\ ed.surface = "background"
    /\ ed.resizedCount = 1

\* C10: whenever resized() executes, also inside the constructor, the
\* loader pointer is non-null and loadUI has completed; adding the
\* container as a child does not run resized().
C10_LoaderReadyAtResized ==
    /\ ~ ed.nullDeref
    /\ ~ ed.unloadedLayout
    /\ ed.resizedCount > 0 => ed.loadCount >= 1 /\ ed.applyCount = ed.resizedCount
    /\ \A e \in resizedAt : e[2] # "addAndMakeVisible"

C10_Witness ==
    /\ phase = "Uninitialized"
    /\ << "Uninitialized", "setResizeLimits" >> \in resizedAt
    /\ ed.resizedCount = 1
    /\ ed.uiLoader.loaded

====
